---- MODULE Spec2Model ----
(***************************************************************************)
(* A model of etna's TimeSeriesCrossValidation                             *)
(* (src/etna/model_selection/backtest.py): construction, the validation of *)
(* the dataset, the generation of the train/test folds, the run of each    *)
(* fold (one after another, or several at a time), the collection of the   *)
(* results and the three queries on them; and of _build_intervals of the   *)
(* change point adapters                                                   *)
(* (src/etna/transforms/decomposition/change_points_based/                 *)
(* change_points_models/base.py).                                          *)
(*                                                                         *)
(* The time axis of a dataset of n points is 0..n-1; the timestamp at      *)
(* position p is p itself, and timestamps[i] follows Python's indexing: a  *)
(* negative i in -n..-1 reads position n+i, anything outside -n..n-1       *)
(* raises IndexError.                                                      *)
(***************************************************************************)
EXTENDS Integers, Sequences, FiniteSets

\* ------------------------------------------------------------------ bounds
MaxN == 10          \* longest time axis of a dataset
MaxFolds == 3       \* largest n_folds given to the constructor
MaxHorizon == 2     \* largest horizon given to the constructor
MaxCalls == 2       \* backtest calls made on one instance
MaxJobs == 2        \* largest n_jobs given to the constructor
MaxPoint == 8       \* largest change point given to _build_intervals
MaxPoints == 3      \* longest list of change points given to _build_intervals

\* ------------------------------------------------------------------ inputs
Segments == {"segment_0", "segment_1", "segment_2"}

\* The segments in ascending order of their names.
SegmentOrder == <<"segment_0", "segment_1", "segment_2">>

SegmentRank(s) == CHOOSE p \in 1..Len(SegmentOrder) : SegmentOrder[p] = s

\* The class names of the metrics given, by position in the list.
MetricNames == <<"MAE", "MSE">>

\* MetricAggregationMode values of the metrics given to the constructor.
per_segment == "per-segment"
macro == "macro"

MetricLists ==
    { <<>>, <<per_segment>>, <<macro>>,
      <<per_segment, per_segment>>, <<per_segment, macro>> }

\* Mode names a caller may give.
ModeNames == {"expand", "constant", "Expand", "CONSTANT", "expandable", "sliding"}

\* str.lower() on the names above.
Lower(name) ==
    CASE name = "Expand" -> "expand"
      [] name = "CONSTANT" -> "constant"
      [] OTHER -> name

\* The members of the enum CrossValidationMode.
CrossValidationMode == {"expand", "constant"}

NoError == [type |-> "none", why |-> "none"]

VARIABLES
    obj,            \* "absent" | "constructed" | "rejected": outcome of __init__
    args,           \* the arguments of the __init__ call that raised, if it did
    self,           \* the instance's fields (n_folds, horizon, metrics, mode, ...)
    _folds,         \* self._folds: fold_number -> fold
    error,          \* the exception the last call raised, NoError if none
    pc,             \* position of the current backtest call
    ts,             \* the dataset of the backtest call in progress, or of the one that raised
    offset,         \* the generator's loop variable (next value of range(n_folds, 0, -1))
    yielded,        \* the (train, test, forecast_base) triples the generator has yielded
    folds,          \* backtest's local list of (fold_number, fold) pairs
    calls,          \* number of backtest calls started
    spy,            \* per-call counters of the collaborators' invocations
    folds_at_call,  \* self._folds as it was when the current call started
    tasks,          \* the state of each dispatched _run_fold task of the current call
    reordered,      \* whether a task of the current call finished before an earlier one
    last_run,       \* of the last call that returned: dataset length, call number, task order, what one job stores
    written_by,     \* fold_number -> number of the call that stored self._folds[fold_number]
    mem,            \* the caller's model and transforms, and the copies fitted in the current call
    returned,       \* what the last call of backtest or of a query returned or raised
    change_points,  \* the list given to _build_intervals
    intervals       \* what _build_intervals returned for it

\* The variables of the parallel dispatch, of the queries and of
\* _build_intervals.
par == <<tasks, reordered>>
query == <<returned>>
iv == <<change_points, intervals>>

vars == <<obj, args, self, _folds, error, pc, ts, offset, yielded, folds, calls,
          spy, folds_at_call, tasks, reordered, last_run, written_by, mem,
          returned, change_points, intervals>>

NoSelf == [n_folds |-> 0, horizon |-> 0, metrics |-> <<>>, mode |-> "none",
           _constant_history_length |-> 0, n_jobs |-> 0]
NoArgs == [n_folds |-> 0, horizon |-> 0, metrics |-> <<>>, mode |-> "none"]
NoTs == [n |-> 0, nan |-> [s \in Segments |-> {}]]
NoSpy == [fit_transform |-> 0, fit |-> 0, forecast |-> 0]
NoRun == [n |-> 0, call |-> 0, reordered |-> FALSE, serial |-> <<>>]
NoneReturned == [kind |-> "none", args |-> <<>>, raised |-> "none", table |-> <<>>]

\* The identities of the caller's model (self.model) and of a list of
\* transforms the caller passes.
CallerModel == <<"model">>
CallerTransforms == <<"transforms">>

\* The default of backtest's transforms parameter: the empty tuple.
NoTransforms == <<>>

\* Nothing fitted: no new object made in this call, no transforms given,
\* neither of the caller's objects ever fitted.
NoMem == [copies |-> 0, models |-> <<>>, transforms |-> <<>>, fitted |-> {},
          given |-> NoTransforms]

\* No orchestrator is constructed yet.
InitBacktest ==
    /\ obj = "absent"
    /\ args = NoArgs
    /\ self = NoSelf
    /\ _folds = [i \in {} |-> <<>>]
    /\ error = NoError
    /\ pc = "idle"
    /\ ts = NoTs
    /\ offset = 0
    /\ yielded = <<>>
    /\ folds = <<>>
    /\ calls = 0
    /\ spy = NoSpy
    /\ folds_at_call = [i \in {} |-> <<>>]
    /\ tasks = <<>>
    /\ reordered = FALSE
    /\ last_run = NoRun
    /\ written_by = [i \in {} |-> 0]
    /\ mem = NoMem
    /\ returned = NoneReturned

Init ==
    /\ InitBacktest
    /\ change_points = <<>>
    /\ intervals = <<>>

\* ------------------------------------------------------------- __init__
\* A variant of InvalidFolds that lets n_folds = 0 through.
InvalidFoldsNegative(n) == n < 0

InvalidFolds(n) == n < 1

NoMetrics(ms) == ms = <<>>

NotPerSegment(ms) == \E i \in 1..Len(ms) : ~(ms[i] = per_segment)

\* CrossValidationMode[name]: the enum's lookup by name raises KeyError for
\* a name that is no member.
EnumLookupFails(name) == name \notin CrossValidationMode

ConstantHistoryLength(m) ==
    IF m = "expand" THEN 0 ELSE IF m = "constant" THEN 1 ELSE -1

\* The exception __init__ raises for these arguments, NoError if it returns.
InitError(n, ms, m) ==
    IF InvalidFolds(n) THEN [type |-> "ValueError", why |-> "n_folds"]
    ELSE IF NoMetrics(ms) THEN [type |-> "ValueError", why |-> "no metrics"]
    ELSE IF NotPerSegment(ms) THEN [type |-> "ValueError", why |-> "metric mode"]
    ELSE IF EnumLookupFails(Lower(m)) THEN [type |-> "KeyError", why |-> "mode"]
    ELSE IF ConstantHistoryLength(Lower(m)) = -1
         THEN [type |-> "NotImplementedError", why |-> "mode"]
    ELSE NoError

ConstructJobs(n, h, ms, m, j) ==
    /\ obj = "absent"
    /\ error' = InitError(n, ms, m)
    /\ IF InitError(n, ms, m) = NoError
       THEN /\ obj' = "constructed"
            /\ args' = NoArgs
            /\ self' = [n_folds |-> n, horizon |-> h, metrics |-> ms,
                        mode |-> Lower(m),
                        _constant_history_length |-> ConstantHistoryLength(Lower(m)),
                        n_jobs |-> j]
       ELSE /\ obj' = "rejected"
            /\ args' = [n_folds |-> n, horizon |-> h, metrics |-> ms, mode |-> m]
            /\ self' = NoSelf
    /\ UNCHANGED <<_folds, pc, ts, offset, yielded, folds, calls, spy, folds_at_call>>
    /\ UNCHANGED <<par, last_run, written_by, mem, query, iv>>

\* __init__ with the default n_jobs = 1.
Construct(n, h, ms, m) == ConstructJobs(n, h, ms, m, 1)

\* ------------------------------------------------- _validate_features
MinRequiredLength == self.horizon * self.n_folds

\* The positions of series.tail(m) of a series over 0..n-1: its last m
\* positions, all of them when the series is shorter than m.
\* A variant of TailPositions that is one position short.
TailPositionsShort(n, m) == {p \in 0..(n - 1) : p > n - m}

TailPositions(n, m) == {p \in 0..(n - 1) : p >= n - m}

\* any(segment_target.tail(min_required_length).isna())
TailHasNaN(d, s) == d.nan[s] \cap TailPositions(d.n, MinRequiredLength) # {}

\* The segments for which _validate_features raises; the loop runs over a
\* set, so any of them may be the one it meets first.
FailingSegments(d) == {s \in Segments : TailHasNaN(d, s)}

\* ------------------------------------------- _generate_folds_dataframes
\* timestamps[i] of an axis of n points: is the index in range, and the
\* position it reads.
IndexInRange(i, n) == -n <= i /\ i < n

At(i, n) == IF i < 0 THEN n + i ELSE i

\* A variant of MinTrainIdx that moves the left border under every policy.
MinTrainIdxSliding(off) == 0 + (self.n_folds - off) * self.horizon

\* A variant of MinTrainIdx that moves the left border by one point per fold.
MinTrainIdxNoHorizon(off) ==
    0 + (self.n_folds - off) * self._constant_history_length

MinTrainIdx(off) ==
    0 + (self.n_folds - off) * self.horizon * self._constant_history_length

\* A variant of MaxTrainIdx that ends the train window one point early.
MaxTrainIdxEarly(off) == ts.n - self.horizon * off - 2

MaxTrainIdx(off) == ts.n - self.horizon * off - 1

\* A variant of MinTestIdx that starts the test window on the train end.
MinTestIdxOverlap(max_train_idx) == max_train_idx

MinTestIdx(max_train_idx) == max_train_idx + 1

\* A variant of MaxTestIdx that ends the test window one point early.
MaxTestIdxShort(max_train_idx) == max_train_idx + self.horizon - 1

MaxTestIdx(max_train_idx) == max_train_idx + self.horizon

\* The window indices of the fold generated for loop value off.
FoldIdx(off) ==
    [min_train_idx |-> MinTrainIdx(off),
     max_train_idx |-> MaxTrainIdx(off),
     min_test_idx |-> MinTestIdx(MaxTrainIdx(off)),
     max_test_idx |-> MaxTestIdx(MaxTrainIdx(off))]

\* Whether the four reads timestamps[...] of the fold all succeed.
LookupsSucceed(f, n) ==
    /\ IndexInRange(f.min_train_idx, n)
    /\ IndexInRange(f.max_train_idx, n)
    /\ IndexInRange(f.min_test_idx, n)
    /\ IndexInRange(f.max_test_idx, n)

\* ts.train_test_split(train_start, train_end, test_start, test_end): the
\* two views, each the positions of the axis between its bounds.
Slice(n, start, end) == {p \in 0..(n - 1) : start <= p /\ p <= end}

TrainTestSplit(f, n) ==
    [train |-> Slice(n, At(f.min_train_idx, n), At(f.max_train_idx, n)),
     test |-> Slice(n, At(f.min_test_idx, n), At(f.max_test_idx, n))]

\* A variant of DeepCopy that hands back the object itself.
DeepCopyShared(o, k) == o

\* deepcopy(o): the empty tuple is handed back as it is, the same object at
\* every call; of anything else a new object is made, the k-th of this call.
DeepCopy(o, k) == IF o = NoTransforms THEN o ELSE <<"copy", k>>

\* The number of new objects made once deepcopy(o) has returned c.
Made(m, o, c) == IF c = o THEN m.copies ELSE m.copies + 1

\* The instances fit is called on when object o is fitted: the empty tuple
\* holds none, a model or a list of transforms is fitted itself.
Holds(o) == IF o = NoTransforms THEN {} ELSE {o}

\* mem after fit is called on object o: a fit on one of the caller's own
\* objects is remembered.
Fitted(m, o) ==
    [m EXCEPT !.fitted = @ \cup (Holds(o) \cap {CallerModel, CallerTransforms})]

\* train.fit_transform(transforms=deepcopy(transforms))
FitTransformsCopy(m) ==
    Fitted([m EXCEPT !.copies = Made(m, m.given, DeepCopy(m.given, m.copies + 1)),
                     !.transforms = Append(@, DeepCopy(m.given, m.copies + 1))],
           DeepCopy(m.given, m.copies + 1))

\* model = deepcopy(self.model); model.fit(ts=train)
FitModelCopy(m) ==
    Fitted([m EXCEPT !.copies = Made(m, CallerModel, DeepCopy(CallerModel, m.copies + 1)),
                     !.models = Append(@, DeepCopy(CallerModel, m.copies + 1))],
           DeepCopy(CallerModel, m.copies + 1))

\* ------------------------------------------------------------ _run_fold
Min(S) == CHOOSE x \in S : \A y \in S : x <= y

Max(S) == CHOOSE x \in S : \A y \in S : y <= x

\* {"start": stage_df.index.min(), "end": stage_df.index.max()}; the empty
\* tuple stands for the NaT bounds of an empty view.
Timerange(view) == IF view = {} THEN <<>> ELSE <<Min(view), Max(view)>>

\* metric(y_true=test, y_pred=forecast) of the metric named c for segment s:
\* a number fixed by the fold's views, the segment and the metric.
MetricValue(c, s, y) ==
    (IF c = MetricNames[1] THEN 1 ELSE 2) * (IF y.test = {} THEN 0 ELSE Min(y.test))
    + SegmentRank(s) + Cardinality(y.train)

\* _compute_metrics: one entry per metric class name.
ComputeMetrics(y) ==
    [c \in {MetricNames[k] : k \in 1..Len(self.metrics)} |->
        [s \in Segments |-> MetricValue(c, s, y)]]

RunFoldResult(y) ==
    [train_timerange |-> Timerange(y.train),
     test_timerange |-> Timerange(y.test),
     forecast |-> [horizon |-> self.horizon, fold_column |-> <<>>],
     metrics |-> ComputeMetrics(y)]

\* ------------------------------------------------------------- backtest
\* backtest(ts=d, transforms=transforms): entry and _validate_features.
BacktestWith(d, transforms) ==
    /\ obj = "constructed"
    /\ pc \in {"idle", "done", "raised"}
    /\ calls < MaxCalls
    /\ calls' = calls + 1
    /\ ts' = d
    /\ folds_at_call' = _folds
    /\ spy' = NoSpy
    /\ yielded' = <<>>
    /\ folds' = <<>>
    /\ IF FailingSegments(d) # {}
       THEN /\ pc' = "raised"
            /\ \E s \in FailingSegments(d) :
                   error' = [type |-> "ValueError", why |-> s]
            /\ offset' = 0
       ELSE /\ pc' = "dispatch"
            /\ error' = NoError
            /\ offset' = self.n_folds
    /\ tasks' = <<>>
    /\ reordered' = FALSE
    /\ mem' = [mem EXCEPT !.copies = 0, !.models = <<>>, !.transforms = <<>>,
                           !.given = transforms]
    /\ returned' = NoneReturned
    /\ UNCHANGED <<obj, args, self, _folds, last_run, written_by, iv>>

\* backtest(ts=d): the transforms are the default.
Backtest(d) == BacktestWith(d, NoTransforms)

\* What the generator yields for loop value off.
YieldedFold(off) ==
    [idx |-> FoldIdx(off),
     train |-> TrainTestSplit(FoldIdx(off), ts.n).train,
     test |-> TrainTestSplit(FoldIdx(off), ts.n).test]

\* One step of the generator: the next fold's indices, the split and the
\* fit of the transforms' copies on the train view; or IndexError.
GeneratorStep ==
    IF LookupsSucceed(FoldIdx(offset), ts.n)
    THEN /\ yielded' = Append(yielded, YieldedFold(offset))
         /\ offset' = offset - 1
         /\ spy' = [spy EXCEPT !.fit_transform = @ + 1]
         /\ mem' = FitTransformsCopy(mem)
         /\ UNCHANGED <<pc, error>>
    ELSE /\ pc' = "raised"
         /\ error' = [type |-> "IndexError", why |-> "timestamps"]
         /\ UNCHANGED <<yielded, offset, spy, mem>>

\* With n_jobs = 1 the next fold is generated when the one before has run.
GenerateFold ==
    /\ pc = "dispatch"
    /\ offset > 0
    /\ Len(folds) = Len(yielded)
    /\ GeneratorStep
    /\ UNCHANGED <<obj, args, self, _folds, ts, folds, calls, folds_at_call>>
    /\ UNCHANGED <<par, last_run, written_by, query, iv>>

\* The fold_number enumerate gives the t-th fold the generator yields.
\* A variant of EnumerateIndex that counts from one.
EnumerateFromOne(t) == t

EnumerateIndex(t) == t - 1

\* A variant of RunFoldReturn that numbers a fold by the count of the folds
\* that finished before it.
RunFoldReturnAsCompleted(t) ==
    <<Cardinality({u \in 1..Len(tasks) : tasks[u].state = "done"}),
      RunFoldResult(yielded[t])>>

\* What _run_fold returns for the t-th fold yielded.
RunFoldReturn(t) == <<EnumerateIndex(t), RunFoldResult(yielded[t])>>

\* _run_fold on the fold last yielded, numbered by enumerate.
RunFold ==
    /\ pc = "dispatch"
    /\ Len(folds) < Len(yielded)
    /\ folds' = Append(folds, RunFoldReturn(Len(folds) + 1))
    /\ spy' = [spy EXCEPT !.fit = @ + 1, !.forecast = @ + 1]
    /\ mem' = FitModelCopy(mem)
    /\ UNCHANGED <<obj, args, self, _folds, error, pc, ts, offset, yielded, calls,
                   folds_at_call>>
    /\ UNCHANGED <<par, last_run, written_by, query, iv>>

\* A variant of Stored that skips the first pair of the list.
StoredButFirst(old, pairs) ==
    [i \in DOMAIN old \cup {pairs[k][1] : k \in 2..Len(pairs)} |->
        IF \E k \in 2..Len(pairs) : pairs[k][1] = i
        THEN pairs[CHOOSE k \in 2..Len(pairs) : pairs[k][1] = i][2]
        ELSE old[i]]

\* self._folds after "for i, fold in folds: self._folds[i] = fold".
Stored(old, pairs) ==
    [i \in DOMAIN old \cup {pairs[k][1] : k \in 1..Len(pairs)} |->
        IF \E k \in 1..Len(pairs) : pairs[k][1] = i
        THEN pairs[CHOOSE k \in 1..Len(pairs) : pairs[k][1] = i][2]
        ELSE old[i]]

\* get_forecasts writes the fold_number column into every stored forecast.
TagForecasts(m) ==
    [i \in DOMAIN m |-> [m[i] EXCEPT !.forecast.fold_column = <<i>>]]

\* ---------------------------------------------------------------- queries
\* self._folds.items(): the keys in the order of their first insertion,
\* which "for i, fold in folds" makes the order of the fold numbers.
RECURSIVE Ascending(_)
Ascending(S) == IF S = {} THEN <<>> ELSE <<Min(S)>> \o Ascending(S \ {Min(S)})

Items(m) == Ascending(DOMAIN m)

\* DataFrame.append over a sequence of frames: their rows, one frame after
\* the other.
RECURSIVE Stack(_)
Stack(frames) ==
    IF frames = <<>> THEN <<>> ELSE frames[1] \o Stack(Tail(frames))

\* pd.DataFrame(fold["metrics"]) with the segment and fold_number columns:
\* one row per segment.
FoldMetrics(i, fold) ==
    [p \in 1..Len(SegmentOrder) |->
        [segment |-> SegmentOrder[p],
         fold_number |-> i,
         metrics |-> [c \in DOMAIN fold.metrics |-> fold.metrics[c][SegmentOrder[p]]]]]

\* The order sort_values(["segment", fold_number]) puts two rows in.
RowBefore(a, b) ==
    \/ SegmentRank(a.segment) < SegmentRank(b.segment)
    \/ a.segment = b.segment /\ a.fold_number <= b.fold_number

InsertRow(sorted, r) ==
    SelectSeq(sorted, LAMBDA e : RowBefore(e, r)) \o <<r>>
    \o SelectSeq(sorted, LAMBDA e : ~RowBefore(e, r))

RECURSIVE SortValues(_)
SortValues(rows) ==
    IF rows = <<>> THEN <<>>
    ELSE InsertRow(SortValues(SubSeq(rows, 1, Len(rows) - 1)), rows[Len(rows)])

RECURSIVE Sum(_)
Sum(vals) == IF vals = <<>> THEN 0 ELSE vals[1] + Sum(Tail(vals))

\* The mean of a group's values, as the pair <<sum, count>> of the quotient.
Mean(vals) == <<Sum(vals), Len(vals)>>

\* groupby("segment").mean().reset_index(): one row per segment present, in
\* ascending order, every other column averaged over the group.
GroupBySegmentMean(rows) ==
    LET group(s) == SelectSeq(rows, LAMBDA r : r.segment = s)
        column(g, f(_)) == [k \in 1..Len(g) |-> f(g[k])]
        present == SelectSeq(SegmentOrder, LAMBDA s : group(s) # <<>>)
    IN  [p \in 1..Len(present) |->
            [segment |-> present[p],
             fold_number |-> Mean(column(group(present[p]), LAMBDA r : r.fold_number)),
             metrics |-> [c \in DOMAIN rows[1].metrics |->
                 Mean(column(group(present[p]), LAMBDA r : r.metrics[c]))]]]

\* drop(fold_number, axis=1)
DropFoldColumn(rows) ==
    [k \in 1..Len(rows) |-> [segment |-> rows[k].segment, metrics |-> rows[k].metrics]]

\* The frame get_metrics builds when the keys of m are visited in the
\* given order.
MetricsFrame(m, order, aggregate_metrics) ==
    LET metrics_df == SortValues(Stack([k \in 1..Len(order) |->
                                          FoldMetrics(order[k], m[order[k]])]))
    IN  IF aggregate_metrics THEN DropFoldColumn(GroupBySegmentMean(metrics_df))
        ELSE metrics_df

\* get_metrics: sort_values raises KeyError on the frame without columns
\* that is left when no fold is stored.
get_metrics(m, aggregate_metrics) ==
    IF DOMAIN m = {}
    THEN [kind |-> "get_metrics", args |-> <<aggregate_metrics>>,
          raised |-> "KeyError", table |-> <<>>]
    ELSE [kind |-> "get_metrics", args |-> <<aggregate_metrics>>, raised |-> "none",
          table |-> MetricsFrame(m, Items(m), aggregate_metrics)]

\* get_forecasts, on the mapping it has written the fold_number column
\* into: the rows of every fold's forecast, one per step of the horizon.
get_forecasts(m) ==
    [kind |-> "get_forecasts", args |-> <<>>, raised |-> "none",
     table |-> Stack([k \in 1..Len(Items(m)) |->
                  [q \in 1..m[Items(m)[k]].forecast.horizon |->
                      [step |-> q, fold_number |-> m[Items(m)[k]].forecast.fold_column]]])]

\* get_fold_info: one row per stored fold; -1 stands for the NaT bound of
\* an empty view.
get_fold_info(m) ==
    LET border(tr, b) == IF tr = <<>> THEN -1 ELSE tr[b]
    IN  [kind |-> "get_fold_info", args |-> <<>>, raised |-> "none",
         table |-> [k \in 1..Len(Items(m)) |->
             [train_start_time |-> border(m[Items(m)[k]].train_timerange, 1),
              train_end_time |-> border(m[Items(m)[k]].train_timerange, 2),
              test_start_time |-> border(m[Items(m)[k]].test_timerange, 1),
              test_end_time |-> border(m[Items(m)[k]].test_timerange, 2),
              fold_number |-> Items(m)[k]]]]

\* What a run with one job stores for the dataset of the call: fold i is
\* the fold of loop value K - i, run and then tagged by get_forecasts.
SerialRun ==
    TagForecasts([i \in 0..(self.n_folds - 1) |->
        RunFoldResult(TrainTestSplit(FoldIdx(self.n_folds - i), ts.n))])

\* The keys "for i, fold in folds: self._folds[i] = fold" writes.
Written(pairs) == {pairs[k][1] : k \in 1..Len(pairs)}

\* Lines 293-300 for the list of pairs Parallel returned: store the results,
\* build the three tables and return, which ends the life of the call's
\* locals.
StoreAndReturn(pairs) ==
    /\ _folds' = TagForecasts(Stored(_folds, pairs))
    /\ written_by' = [i \in DOMAIN written_by \cup Written(pairs) |->
                         IF i \in Written(pairs) THEN calls ELSE written_by[i]]
    /\ last_run' = [n |-> ts.n, call |-> calls, reordered |-> reordered,
                    serial |-> SerialRun]
    /\ pc' = "done"
    /\ ts' = NoTs
    /\ yielded' = <<>>
    /\ folds' = <<>>
    /\ tasks' = <<>>
    /\ reordered' = FALSE
    /\ returned' = [kind |-> "backtest", args |-> <<>>, raised |-> "none",
                    table |-> <<get_metrics(Stored(_folds, pairs), FALSE).table,
                                get_forecasts(TagForecasts(Stored(_folds, pairs))).table,
                                get_fold_info(Stored(_folds, pairs)).table>>]
    /\ UNCHANGED <<obj, args, self, error, offset, calls, spy, folds_at_call, mem>>
    /\ UNCHANGED iv

\* With n_jobs = 1: the generator is exhausted and every fold has run.
Collect ==
    /\ pc = "dispatch"
    /\ offset = 0
    /\ Len(folds) = Len(yielded)
    /\ StoreAndReturn(folds)

\* The datasets a caller may give: an axis of n points and, per segment, the
\* positions where the target is missing (at most one missing value in all,
\* on one of the three longest axes).
Datasets ==
    {[n |-> n, nan |-> [s \in Segments |-> {}]] : n \in 1..MaxN}
    \cup {[n |-> n, nan |-> [s \in Segments |-> IF s = t THEN {p} ELSE {}]] :
              n \in (MaxN - 2)..MaxN, t \in Segments, p \in 0..(MaxN - 1)}

Next ==
    \/ \E n \in 0..MaxFolds, h \in 1..MaxHorizon, ms \in MetricLists, m \in ModeNames :
        Construct(n, h, ms, m)
    \/ \E d \in Datasets : d.nan \in [Segments -> SUBSET (0..(d.n - 1))] /\ Backtest(d)
    \/ GenerateFold
    \/ RunFold
    \/ Collect

Spec == Init /\ [][Next]_vars

\* ------------------------------------------------- queries by the caller
\* The orchestrator exists and no backtest call is running.
AtRest == obj = "constructed" /\ pc \in {"idle", "done", "raised"}

GetMetrics(aggregate_metrics) ==
    /\ AtRest
    /\ returned' = get_metrics(_folds, aggregate_metrics)
    /\ UNCHANGED <<obj, args, self, _folds, error, pc, ts, offset, yielded, folds,
                   calls, spy, folds_at_call, mem>>
    /\ UNCHANGED <<par, last_run, written_by, iv>>

GetForecasts ==
    /\ AtRest
    /\ _folds' = TagForecasts(_folds)
    /\ returned' = get_forecasts(TagForecasts(_folds))
    /\ UNCHANGED <<obj, args, self, error, pc, ts, offset, yielded, folds,
                   calls, spy, folds_at_call, mem>>
    /\ UNCHANGED <<par, last_run, written_by, iv>>

GetFoldInfo ==
    /\ AtRest
    /\ returned' = get_fold_info(_folds)
    /\ UNCHANGED <<obj, args, self, _folds, error, pc, ts, offset, yielded, folds,
                   calls, spy, folds_at_call, mem>>
    /\ UNCHANGED <<par, last_run, written_by, iv>>

\* Complete datasets of the longer axes.
QueryDatasets ==
    {d \in Datasets : d.n >= MaxN - 3 /\ \A s \in Segments : d.nan[s] = {}}

NextQuery ==
    \/ \E n \in 1..MaxFolds, h \in 1..MaxHorizon, m \in CrossValidationMode,
          ms \in {<<per_segment>>, <<per_segment, per_segment>>} :
        Construct(n, h, ms, m)
    \/ \E d \in QueryDatasets : Backtest(d)
    \/ GenerateFold
    \/ RunFold
    \/ Collect
    \/ \E aggregate_metrics \in BOOLEAN : GetMetrics(aggregate_metrics)
    \/ GetForecasts
    \/ GetFoldInfo

SpecQuery == Init /\ [][NextQuery]_vars

\* ------------------------------------------- backtest with n_jobs workers
\* Parallel(n_jobs) draws the folds from the generator ahead of the workers:
\* one at a time with one job, up to 2 * n_jobs unfinished tasks otherwise.
\* A variant of PreDispatch that draws ahead with one job too.
PreDispatchAhead == 2 * self.n_jobs

PreDispatch == IF self.n_jobs = 1 THEN 1 ELSE 2 * self.n_jobs

TasksIn(state) == {t \in 1..Len(tasks) : tasks[t].state = state}

Unfinished == TasksIn("pending") \cup TasksIn("running")

\* A fold has raised in a worker and backtest has not raised yet.
FailurePending == TasksIn("failed") # {}

\* The generator yields the next fold, which becomes a pending task; the
\* task remembers whether a fold had raised before.
DispatchTask ==
    /\ pc = "dispatch"
    /\ offset > 0
    /\ Cardinality(Unfinished) < PreDispatch
    /\ GeneratorStep
    /\ tasks' = IF LookupsSucceed(FoldIdx(offset), ts.n)
                 THEN Append(tasks, [state |-> "pending", result |-> <<>>,
                                     after_failure |-> FailurePending])
                 ELSE tasks
    /\ UNCHANGED <<obj, args, self, _folds, ts, folds, calls, folds_at_call>>
    /\ UNCHANGED <<reordered, last_run, written_by, query, iv>>

\* A free worker takes the oldest pending task.
StartTask(t) ==
    /\ pc = "dispatch"
    /\ t \in TasksIn("pending")
    /\ \A u \in TasksIn("pending") : t <= u
    /\ Cardinality(TasksIn("running")) < self.n_jobs
    /\ tasks' = [tasks EXCEPT ![t].state = "running",
                              ![t].after_failure = @ \/ FailurePending]
    /\ UNCHANGED <<obj, args, self, _folds, error, pc, ts, offset, yielded, folds,
                   calls, spy, folds_at_call, mem>>
    /\ UNCHANGED <<reordered, last_run, written_by, query, iv>>

\* _run_fold of task t returns; the tasks may finish in any order.
FinishTask(t) ==
    /\ pc = "dispatch"
    /\ t \in TasksIn("running")
    /\ tasks' = [tasks EXCEPT ![t].state = "done", ![t].result = RunFoldReturn(t)]
    /\ reordered' = (reordered \/ \E u \in Unfinished : u < t)
    /\ spy' = [spy EXCEPT !.fit = @ + 1, !.forecast = @ + 1]
    /\ mem' = FitModelCopy(mem)
    /\ UNCHANGED <<obj, args, self, _folds, error, pc, ts, offset, yielded, folds,
                   calls, folds_at_call>>
    /\ UNCHANGED <<last_run, written_by, query, iv>>

\* The stages of _run_fold that call a collaborator, which may raise.
Stages == {"fit", "forecast", "metrics"}

\* A variant of FoldsOnFailure that stores the folds finished so far.
FoldsStoredAsFinished ==
    Stored(_folds, SelectSeq([t \in 1..Len(tasks) |-> tasks[t].result],
                             LAMBDA r : r # <<>>))

\* self._folds when Parallel raises: line 293 is not reached.
FoldsOnFailure == _folds

\* Parallel raises the error of a fold in backtest, which ends without
\* reaching line 293; the call's locals end with it.
RaiseInBacktest ==
    /\ pc' = "raised"
    /\ ts' = NoTs
    /\ offset' = 0
    /\ yielded' = <<>>
    /\ tasks' = <<>>
    /\ reordered' = FALSE
    /\ _folds' = FoldsOnFailure

\* _run_fold of task t raises at the given stage. With one job the fold
\* runs in the thread of backtest, where the error is raised at once; with
\* more jobs it is raised in a worker and reaches backtest later, while the
\* other workers and the dispatch go on.
FailTask(t, stage) ==
    /\ pc = "dispatch"
    /\ t \in TasksIn("running")
    /\ error' = IF error = NoError THEN [type |-> "FoldError", why |-> stage]
                 ELSE error
    /\ spy' = [spy EXCEPT !.fit = @ + 1,
                          !.forecast = IF stage = "fit" THEN @ ELSE @ + 1]
    /\ mem' = FitModelCopy(mem)
    /\ IF self.n_jobs = 1
       THEN RaiseInBacktest
       ELSE /\ tasks' = [tasks EXCEPT ![t].state = "failed"]
            /\ UNCHANGED <<pc, ts, offset, yielded, reordered, _folds>>
    /\ UNCHANGED <<obj, args, self, folds, calls, folds_at_call>>
    /\ UNCHANGED <<last_run, written_by, query, iv>>

\* Parallel, waiting for the results in backtest, gets the error of a
\* worker and raises it.
Reraise ==
    /\ pc = "dispatch"
    /\ FailurePending
    /\ RaiseInBacktest
    /\ UNCHANGED <<obj, args, self, error, folds, calls, spy, folds_at_call, mem>>
    /\ UNCHANGED <<last_run, written_by, query, iv>>

\* The list Parallel returns: the tasks' results in the order of the tasks.
TaskResults == [t \in 1..Len(tasks) |-> tasks[t].result]

\* The generator is exhausted and every task has finished.
CollectTasks ==
    /\ pc = "dispatch"
    /\ offset = 0
    /\ Unfinished = {}
    /\ ~FailurePending
    /\ StoreAndReturn(TaskResults)

\* Complete datasets of the two longest axes: two runs on different axes
\* store different results.
ParDatasets ==
    {d \in Datasets : d.n >= MaxN - 1 /\ \A s \in Segments : d.nan[s] = {}}

\* The dispatch does not depend on the horizon: the longest one is taken.
NextPar ==
    \/ \E n \in 1..MaxFolds, m \in CrossValidationMode, j \in 1..MaxJobs :
        ConstructJobs(n, MaxHorizon, <<per_segment>>, m, j)
    \/ \E d \in ParDatasets, transforms \in {NoTransforms, CallerTransforms} :
        BacktestWith(d, transforms)
    \/ DispatchTask
    \/ \E t \in 1..Len(tasks) : StartTask(t)
    \/ \E t \in 1..Len(tasks) : FinishTask(t)
    \/ \E t \in 1..Len(tasks), stage \in Stages : FailTask(t, stage)
    \/ Reraise
    \/ CollectTasks

SpecPar == Init /\ [][NextPar]_vars

\* ================================================================ claims
\* The generator of the call in progress has yielded all its folds.
Exhausted == pc = "dispatch" /\ offset = 0

\* A backtest call is in progress or has raised, so ts is its dataset.
InCall == obj = "constructed" /\ pc \in {"dispatch", "raised"}

\* The precondition N >= K*H of fold generation.
EnoughPoints == ts.n >= self.n_folds * self.horizon

\* The window indices of fold i (0-based) of the call in progress.
Idx(i) == yielded[i + 1].idx

Yielded == 0..(Len(yielded) - 1)

\* C1: with N >= K*H, fold generation raises no IndexError, yields exactly K
\* folds, and every fold's test range [min_test_idx, max_test_idx] holds
\* exactly H indices of the axis 0..N-1.
C1_FoldCountAndTestLength ==
    (InCall /\ EnoughPoints) =>
        /\ error.type # "IndexError"
        /\ Exhausted => Len(yielded) = self.n_folds
        /\ \A i \in Yielded :
               Cardinality((Idx(i).min_test_idx..Idx(i).max_test_idx)
                           \cap (0..(ts.n - 1))) = self.horizon

C1_Witness ==
    /\ Exhausted /\ Len(yielded) = 3
    /\ self.horizon = 2 /\ ts.n = 6

\* C2: with N >= K*H, the test ranges of the folds are strictly increasing in
\* fold order (each ends before the next begins, so they are pairwise
\* disjoint), and the last fold's test range ends at index N-1.
C2_TestRangesIncreasing ==
    (InCall /\ EnoughPoints) =>
        /\ \A i, j \in Yielded :
               i < j => Idx(i).max_test_idx < Idx(j).min_test_idx
        /\ \A i, j \in Yielded :
               i # j => (Idx(i).min_test_idx..Idx(i).max_test_idx)
                        \cap (Idx(j).min_test_idx..Idx(j).max_test_idx) = {}
        /\ (Exhausted /\ Len(yielded) > 0) =>
               Idx(Len(yielded) - 1).max_test_idx = ts.n - 1

C2_Witness ==
    /\ Exhausted /\ Len(yielded) = 3 /\ EnoughPoints
    /\ Idx(2).max_test_idx = ts.n - 1
    /\ Idx(0).max_test_idx < Idx(1).min_test_idx

\* C3 as stated: the train range of any fold i shares no index with the test
\* range of any fold j (here for N > K*H, where every train window is
\* non-empty).
C3_NoLeakageAnyPair ==
    (InCall /\ ts.n > self.n_folds * self.horizon) =>
        \A i, j \in Yielded :
            (Idx(i).min_train_idx..Idx(i).max_train_idx)
            \cap (Idx(j).min_test_idx..Idx(j).max_test_idx) = {}

\* C3 amended: the train range of fold i ends before the test range of every
\* fold j >= i begins, so it shares no index with it.
C3_NoLeakageFromLaterFolds ==
    InCall =>
        \A i, j \in Yielded :
            i <= j =>
                /\ Idx(i).max_train_idx < Idx(j).min_test_idx
                /\ (Idx(i).min_train_idx..Idx(i).max_train_idx)
                   \cap (Idx(j).min_test_idx..Idx(j).max_test_idx) = {}

C3_Witness ==
    /\ Exhausted /\ Len(yielded) = 3 /\ ts.n = 10 /\ self.horizon = 2
    /\ self.mode = "constant"
    /\ Idx(0).max_train_idx < Idx(2).min_test_idx

\* C4 as stated: with N >= K*H, every fold has
\* 0 <= min_train_idx <= max_train_idx.
C4_TrainWindowNonEmpty ==
    (InCall /\ EnoughPoints) =>
        \A i \in Yielded :
            /\ 0 <= Idx(i).min_train_idx
            /\ Idx(i).min_train_idx <= Idx(i).max_train_idx

\* C5: under the expand policy fold i's train range starts at index 0 and
\* ends at N-1-H*(K-i); for N=10, K=3, H=2 the folds are (train [0,3],
\* test [4,5]), (train [0,5], test [6,7]), (train [0,7], test [8,9]).
C5_ExpandPolicy ==
    (InCall /\ self.mode = "expand") =>
        /\ \A i \in Yielded :
               /\ Idx(i).min_train_idx = 0
               /\ Idx(i).max_train_idx = ts.n - 1 - self.horizon * (self.n_folds - i)
        /\ (Exhausted /\ ts.n = 10 /\ self.n_folds = 3 /\ self.horizon = 2) =>
               /\ Len(yielded) = 3
               /\ <<Idx(0), Idx(1), Idx(2)>> =
                   << [min_train_idx |-> 0, max_train_idx |-> 3,
                       min_test_idx |-> 4, max_test_idx |-> 5],
                      [min_train_idx |-> 0, max_train_idx |-> 5,
                       min_test_idx |-> 6, max_test_idx |-> 7],
                      [min_train_idx |-> 0, max_train_idx |-> 7,
                       min_test_idx |-> 8, max_test_idx |-> 9] >>
               /\ <<yielded[1].train, yielded[2].train, yielded[3].train>> =
                   <<0..3, 0..5, 0..7>>
               /\ <<yielded[1].test, yielded[2].test, yielded[3].test>> =
                   <<4..5, 6..7, 8..9>>

C5_Witness ==
    /\ Exhausted /\ self.mode = "expand"
    /\ ts.n = 10 /\ self.n_folds = 3 /\ self.horizon = 2
    /\ Len(yielded) = 3

\* C6: under the constant policy every fold's train range has the length of
\* fold 0's and fold i+1's train start is fold i's plus H; for N=10, K=3, H=2
\* the folds are (train [0,3], test [4,5]), (train [2,5], test [6,7]),
\* (train [4,7], test [8,9]).
C6_ConstantPolicy ==
    (InCall /\ self.mode = "constant") =>
        /\ \A i \in Yielded :
               Idx(i).max_train_idx - Idx(i).min_train_idx
                   = Idx(0).max_train_idx - Idx(0).min_train_idx
        /\ \A i \in Yielded :
               (i + 1) \in Yielded =>
                   Idx(i + 1).min_train_idx = Idx(i).min_train_idx + self.horizon
        /\ (Exhausted /\ ts.n = 10 /\ self.n_folds = 3 /\ self.horizon = 2) =>
               /\ Len(yielded) = 3
               /\ <<Idx(0), Idx(1), Idx(2)>> =
                   << [min_train_idx |-> 0, max_train_idx |-> 3,
                       min_test_idx |-> 4, max_test_idx |-> 5],
                      [min_train_idx |-> 2, max_train_idx |-> 5,
                       min_test_idx |-> 6, max_test_idx |-> 7],
                      [min_train_idx |-> 4, max_train_idx |-> 7,
                       min_test_idx |-> 8, max_test_idx |-> 9] >>
               /\ <<yielded[1].train, yielded[2].train, yielded[3].train>> =
                   <<0..3, 2..5, 4..7>>
               /\ <<yielded[1].test, yielded[2].test, yielded[3].test>> =
                   <<4..5, 6..7, 8..9>>

C6_Witness ==
    /\ Exhausted /\ self.mode = "constant"
    /\ ts.n = 10 /\ self.n_folds = 3 /\ self.horizon = 2
    /\ Len(yielded) = 3

\* C7 as stated: when the axis has fewer than H*K points, backtest raises the
\* insufficient-history ValueError of _validate_features and plans no fold.
C7_ShortAxisRejected ==
    (InCall /\ ~EnoughPoints) =>
        /\ pc = "raised"
        /\ error.type = "ValueError"
        /\ yielded = <<>>

\* C8: when some segment has a missing target among its last H*K points,
\* backtest raises the ValueError of _validate_features, naming such a
\* segment, before any fold runs: no transform is fitted, no model is fitted
\* or asked to forecast, and self._folds is what it was when the call
\* started.
C8_MissingTailFailsFirst ==
    (InCall /\ \E s \in Segments : \E p \in ts.nan[s] :
                   p >= ts.n - self.horizon * self.n_folds) =>
        /\ pc = "raised"
        /\ error.type = "ValueError"
        /\ error.why \in Segments
        /\ \E p \in ts.nan[error.why] : p >= ts.n - self.horizon * self.n_folds
        /\ spy = NoSpy
        /\ yielded = <<>>
        /\ folds = <<>>
        /\ _folds = folds_at_call

C8_Witness ==
    /\ pc = "raised" /\ error.type = "ValueError"
    /\ DOMAIN _folds # {}
    /\ \E s \in Segments : ts.nan[s] = {ts.n - self.horizon * self.n_folds}

\* C9: construction raises (ValueError, and no instance results) whenever
\* n_folds < 1, or the metric list is empty, or some metric is not in
\* per-segment mode; an instance results only with n_folds >= 1 and a
\* non-empty list of metrics all in per-segment mode.
C9_ConstructionValidation ==
    /\ (obj = "rejected"
        /\ (\/ args.n_folds < 1
            \/ Len(args.metrics) = 0
            \/ \E i \in 1..Len(args.metrics) : args.metrics[i] # per_segment)) =>
           error.type = "ValueError"
    /\ obj = "rejected" => (error # NoError /\ self = NoSelf)
    /\ (obj = "constructed" /\ calls = 0) => error = NoError
    /\ obj = "constructed" =>
           /\ self.n_folds >= 1
           /\ Len(self.metrics) >= 1
           /\ \A i \in 1..Len(self.metrics) : self.metrics[i] = per_segment

C9_Witness ==
    /\ obj = "rejected" /\ error.type = "ValueError"
    /\ args.n_folds >= 1 /\ args.metrics = <<per_segment, macro>>

\* C10 as stated: construction with otherwise valid arguments and a mode name
\* that is neither expand nor constant raises NotImplementedError.
C10_UnknownModeNotImplemented ==
    (/\ obj = "rejected"
     /\ args.n_folds >= 1
     /\ Len(args.metrics) >= 1
     /\ \A i \in 1..Len(args.metrics) : args.metrics[i] = per_segment
     /\ args.mode \notin {"expand", "constant", "Expand", "CONSTANT"}) =>
        error.type = "NotImplementedError"
\* ------------------------------------------------------ _build_intervals
\* None, the open border of the first and of the last interval; a point p
\* as a border is <<p>>.
None == <<>>

\* A variant of sorted that leaves the list in the order given.
unsorted(points) == points

RECURSIVE sorted(_)
sorted(points) ==
    IF points = <<>> THEN <<>>
    ELSE LET rest == sorted(SubSeq(points, 1, Len(points) - 1))
             x == points[Len(points)]
         IN  SelectSeq(rest, LAMBDA e : e <= x) \o <<x>>
             \o SelectSeq(rest, LAMBDA e : e > x)

\* [None] + sorted(change_points) + [None], zipped with itself shifted by one.
_build_intervals(points) ==
    LET borders == <<None>> \o [k \in 1..Len(points) |-> <<sorted(points)[k]>>]
                   \o <<None>>
    IN  [k \in 1..(Len(borders) - 1) |-> <<borders[k], borders[k + 1]>>]

\* The lists of change points a detector may return.
PointLists == UNION {[1..n -> 1..MaxPoint] : n \in 0..MaxPoints}

InitIntervals ==
    /\ InitBacktest
    /\ change_points \in PointLists
    /\ intervals = <<>>

BuildIntervals ==
    /\ intervals = <<>>
    /\ intervals' = _build_intervals(change_points)
    /\ UNCHANGED <<obj, args, self, _folds, error, pc, ts, offset, yielded, folds,
                   calls, spy, folds_at_call, mem>>
    /\ UNCHANGED <<par, last_run, written_by, query, change_points>>

NextIntervals == BuildIntervals

SpecIntervals == InitIntervals /\ [][NextIntervals]_vars

\* ------------------------------------------------- claims on parallel runs
\* C11: a backtest that returns has stored, whatever the number of jobs and
\* the order in which its folds finished, the mapping fold_number ->
\* FoldResult that the run with one job stores for the same dataset.
C11_ParallelStoresSerialMapping ==
    pc = "done" => _folds = last_run.serial

C11_Witness ==
    /\ pc = "done"
    /\ self.n_jobs > 1
    /\ self.n_folds >= 2
    /\ last_run.reordered
    /\ DOMAIN _folds = 0..(self.n_folds - 1)

\* C12: when a fold's fit, forecast or metric raises, backtest has raised,
\* has returned no tables, and the results mapping is what it was when the
\* call began.
C12_FoldFailureLeavesMapping ==
    (pc = "raised" /\ error.type = "FoldError") =>
        (_folds = folds_at_call /\ returned = NoneReturned)

C12_Witness ==
    /\ pc = "raised"
    /\ error.type = "FoldError"
    /\ DOMAIN folds_at_call # {}
    /\ spy.forecast >= 1

\* The copies made in the call so far, the transforms' and the models'.
Copies == mem.transforms \o mem.models

\* C13: fit is never called on the caller's model or on a transform of
\* the caller's, every fold fits copies made for it alone: no model or
\* transform instance is fitted by two folds of a call, and none of the
\* fitted instances is the caller's.
C13_TemplatesNeverFitted ==
    /\ mem.fitted = {}
    /\ \A a, b \in 1..Len(Copies) :
           a # b => Holds(Copies[a]) \cap Holds(Copies[b]) = {}
    /\ \A a \in 1..Len(Copies) :
           Holds(Copies[a]) \cap {CallerModel, CallerTransforms} = {}

C13_Witness ==
    /\ pc = "done"
    /\ calls >= 2
    /\ self.n_jobs > 1
    /\ mem.given = CallerTransforms
    /\ Len(mem.models) >= 2
    /\ Len(mem.transforms) >= 2
    /\ \A a \in 1..Len(Copies) : Holds(Copies[a]) # {}

\* C18: the results mapping is empty or holds exactly the keys 0..K-1, all
\* written by the last call that returned and equal to that run's results;
\* a call that is running or has raised has written nothing.
C18_MappingOfLastSuccessfulRun ==
    /\ DOMAIN written_by = DOMAIN _folds
    /\ \/ DOMAIN _folds = {}
       \/ /\ DOMAIN _folds = 0..(self.n_folds - 1)
          /\ \A i \in DOMAIN _folds : written_by[i] = last_run.call
          /\ _folds = last_run.serial
    /\ pc \in {"dispatch", "raised"} =>
           \A i \in DOMAIN written_by : written_by[i] < calls

C18_Witness ==
    /\ pc = "raised"
    /\ calls >= 2
    /\ DOMAIN _folds # {}
    /\ last_run.call = calls - 1

\* ---------------------------------------------------- claims on numbering
\* C19: the folds of a call are numbered 0, 1, 2, ... in the order they are
\* generated, which is the order of increasing test start: fold i has
\* min_test_idx = max_train_idx + 1 = N - H*(K - i), and when the generator
\* is exhausted and every fold has run the numbers are exactly 0..K-1.
C19_DenseNumberingByTestStart ==
    pc = "dispatch" =>
        /\ \A k \in 1..Len(folds) : folds[k][1] = k - 1
        /\ \A i \in Yielded :
               /\ Idx(i).min_test_idx = Idx(i).max_train_idx + 1
               /\ Idx(i).min_test_idx = ts.n - self.horizon * (self.n_folds - i)
        /\ \A i, j \in Yielded : i < j => Idx(i).min_test_idx < Idx(j).min_test_idx
        /\ (offset = 0 /\ Len(folds) = Len(yielded)) =>
               {folds[k][1] : k \in 1..Len(folds)} = 0..(self.n_folds - 1)

C19_Witness ==
    /\ Exhausted
    /\ self.n_folds = MaxFolds
    /\ Len(folds) = MaxFolds
    /\ ts.n > self.n_folds * self.horizon

\* ------------------------------------------------------ claims on queries
StoredFolds == DOMAIN _folds

\* The sum over the stored folds in S of the metric c of segment s.
RECURSIVE FoldTotal(_, _, _)
FoldTotal(S, c, s) ==
    IF S = {} THEN 0
    ELSE LET i == CHOOSE i \in S : TRUE
         IN  _folds[i].metrics[c][s] + FoldTotal(S \ {i}, c, s)

ReturnedMetrics(aggregate_metrics) ==
    returned.kind = "get_metrics" /\ returned.args = <<aggregate_metrics>>

\* The table returned has one row per segment, without a fold_number
\* column, each metric being the mean over the stored folds.
OneMeanRowPerSegment ==
    /\ returned.raised = "none"
    /\ Len(returned.table) = Cardinality(Segments)
    /\ \A s \in Segments :
           Cardinality({k \in 1..Len(returned.table) : returned.table[k].segment = s}) = 1
    /\ \A k \in 1..Len(returned.table) :
           /\ "fold_number" \notin DOMAIN returned.table[k]
           /\ DOMAIN returned.table[k].metrics =
                  {MetricNames[q] : q \in 1..Len(self.metrics)}
           /\ \A c \in DOMAIN returned.table[k].metrics :
                  returned.table[k].metrics[c] =
                      <<FoldTotal(StoredFolds, c, returned.table[k].segment),
                        Cardinality(StoredFolds)>>

\* C14 as stated: get_metrics(aggregate_metrics=True) returns one row per
\* distinct segment, every metric value the arithmetic mean of the metric
\* over all stored folds, and no fold_number column.
C14_AggregateOneRowPerSegment ==
    ReturnedMetrics(TRUE) => OneMeanRowPerSegment

\* C14 where it holds: with at least one fold stored, get_metrics(
\* aggregate_metrics=True) returns one row per distinct segment, every
\* metric value the arithmetic mean of the metric over all stored folds, and
\* no fold_number column; with no fold stored the call raises KeyError.
C14_AggregateWhenStored ==
    ReturnedMetrics(TRUE) =>
        IF StoredFolds = {} THEN returned.raised = "KeyError"
        ELSE OneMeanRowPerSegment

C14_Witness ==
    /\ ReturnedMetrics(TRUE)
    /\ Cardinality(StoredFolds) >= 2
    /\ Len(self.metrics) = 2
    /\ \E k \in 1..Len(returned.table) :
           \E c \in DOMAIN returned.table[k].metrics :
               returned.table[k].metrics[c][1]
                   # returned.table[k].metrics[c][2]
                         * _folds[0].metrics[c][returned.table[k].segment]

\* The orders in which the keys of the stored folds can be visited.
VisitOrders ==
    {o \in [1..Cardinality(StoredFolds) -> StoredFolds] :
        \A a, b \in DOMAIN o : a # b => o[a] # o[b]}

\* The table returned has one row per (segment, stored fold), in ascending
\* order of (segment, fold_number), whatever the order the folds are
\* visited in.
OneRowPerSegmentAndFold ==
    /\ returned.raised = "none"
    /\ Len(returned.table) = Cardinality(Segments) * Cardinality(StoredFolds)
    /\ \A s \in Segments, i \in StoredFolds :
           \E k \in 1..Len(returned.table) :
               /\ returned.table[k].segment = s
               /\ returned.table[k].fold_number = i
               /\ \A c \in DOMAIN _folds[i].metrics :
                      returned.table[k].metrics[c] = _folds[i].metrics[c][s]
    /\ \A k \in 1..(Len(returned.table) - 1) :
           \/ SegmentRank(returned.table[k].segment)
                  < SegmentRank(returned.table[k + 1].segment)
           \/ /\ returned.table[k].segment = returned.table[k + 1].segment
              /\ returned.table[k].fold_number < returned.table[k + 1].fold_number
    /\ \A o \in VisitOrders : MetricsFrame(_folds, o, FALSE) = returned.table

\* C20 as stated: get_metrics(aggregate_metrics=False) returns exactly one
\* row per (segment, stored fold) pair, in ascending order of (segment,
\* fold_number), whatever the order the folds were inserted in.
C20_RowPerSegmentAndFoldSorted ==
    ReturnedMetrics(FALSE) => OneRowPerSegmentAndFold

\* C20 where it holds: with at least one fold stored, get_metrics(
\* aggregate_metrics=False) returns exactly one row per (segment, stored
\* fold) pair, in ascending order of (segment, fold_number), whatever the
\* order the folds were inserted in; with no fold stored it raises KeyError.
C20_SortedWhenStored ==
    ReturnedMetrics(FALSE) =>
        IF StoredFolds = {} THEN returned.raised = "KeyError"
        ELSE OneRowPerSegmentAndFold

C20_Witness ==
    /\ ReturnedMetrics(FALSE)
    /\ Cardinality(StoredFolds) = MaxFolds
    /\ Len(returned.table) = Cardinality(Segments) * MaxFolds

\* C17 as stated, for every call of a query, those of backtest included:
\* the stored forecasts stay as _run_fold returned them, without a
\* fold_number column.
C17_StoredForecastsUntouched ==
    \A i \in StoredFolds : _folds[i].forecast.fold_column = <<>>

\* A step of GetMetrics, GetForecasts or GetFoldInfo.
QueryStep == AtRest /\ pc' = pc /\ calls' = calls /\ obj' = obj

\* C17 where it holds: once backtest has returned, a call of get_forecasts,
\* get_metrics or get_fold_info leaves every stored FoldResult unchanged,
\* and what a query returned is what the same query returns when repeated;
\* the fold_number column of the stored forecasts is written by the
\* get_forecasts call that backtest itself makes.
C17_QueriesIdempotentAfterBacktest ==
    /\ [][QueryStep => _folds' = _folds]_vars
    /\ [](AtRest =>
            /\ returned.kind = "get_forecasts" =>
                   returned = get_forecasts(TagForecasts(_folds))
            /\ returned.kind = "get_fold_info" => returned = get_fold_info(_folds)
            /\ returned.kind = "get_metrics" =>
                   returned = get_metrics(_folds, returned.args[1]))

C17_Witness ==
    /\ AtRest
    /\ returned.kind = "get_forecasts"
    /\ Cardinality(StoredFolds) >= 2
    /\ \A i \in StoredFolds : _folds[i].forecast.fold_column = <<i>>

\* ---------------------------------------------------- claims on intervals
Built == intervals # <<>>

\* The number of times point p is in the list of change points.
Occurrences(p) ==
    Cardinality({k \in 1..Len(change_points) : change_points[k] = p})

\* C15: for n change points in any order, n = 0 included, _build_intervals
\* returns n + 1 intervals: the first has left border None, the last has
\* right border None, the right border of each is the left border of the
\* next, the borders ascend and are the points given; the points 5, 2, 8
\* give (None, 2), (2, 5), (5, 8), (8, None).
C15_IntervalsChainAscending ==
    Built =>
        /\ Len(intervals) = Len(change_points) + 1
        /\ intervals[1][1] = None
        /\ intervals[Len(intervals)][2] = None
        /\ \A k \in 1..(Len(intervals) - 1) :
               /\ intervals[k][2] = intervals[k + 1][1]
               /\ intervals[k][2] # None
        /\ \A k \in 2..(Len(intervals) - 1) :
               intervals[k][1][1] <= intervals[k][2][1]
        /\ \A p \in 1..MaxPoint :
               Cardinality({k \in 1..(Len(intervals) - 1) : intervals[k][2] = <<p>>})
                   = Occurrences(p)
        /\ change_points = <<5, 2, 8>> =>
               intervals = << <<None, <<2>>>>, << <<2>>, <<5>> >>,
                              << <<5>>, <<8>> >>, << <<8>>, None>> >>

C15_Witness ==
    /\ Built
    /\ change_points = <<5, 2, 8>>
    /\ Len(intervals) = 4

\* C16: the intervals _build_intervals returns never contain an interval
\* whose left border and right border are the same point, also when a point
\* is given more than once.
C16_NoZeroLengthInterval ==
    Built => \A k \in 1..Len(intervals) :
                 intervals[k][1] # None => intervals[k][1] # intervals[k][2]

\* ---------------------------------------------------- claims on fail-fast
\* C21 as stated, for every number of jobs: once a fold has raised, no fold
\* is materialized and no fold not yet started is started.
C21_NothingStartsAfterFailure ==
    \A t \in 1..Len(tasks) : ~tasks[t].after_failure

\* C21, amended: with one job the folds are materialized and run strictly
\* one after another in fold order: a fold is materialized when all folds
\* before it have run, and when fold i raises, backtest raises with i + 1
\* folds materialized and i + 1 fits called, so that folds i+1..K-1 are
\* never materialized and never fitted.
C21_SequentialFailFast ==
    self.n_jobs = 1 =>
        /\ pc = "dispatch" =>
               /\ Unfinished \subseteq {Len(tasks)}
               /\ TasksIn("done") = (1..Len(tasks)) \ Unfinished
               /\ ~reordered
               /\ spy.fit_transform = Len(tasks)
               /\ spy.fit = Cardinality(TasksIn("done"))
        /\ (pc = "raised" /\ error.type = "FoldError") =>
               /\ spy.fit_transform = spy.fit
               /\ spy.forecast \in {spy.fit - 1, spy.fit}
               /\ spy.fit <= self.n_folds

C21_Witness ==
    /\ self.n_jobs = 1
    /\ pc = "raised"
    /\ error.type = "FoldError"
    /\ spy.fit >= 2
    /\ spy.fit < self.n_folds

====
